---- MODULE Spec2Model ----
(***************************************************************************)
(* A model of the Lending Club analysis package: the Cleaner               *)
(* (src/src/data_cleaner.py) and the Analyzer (src/src/analyzer.py).       *)
(*                                                                         *)
(* Tables.  A DataFrame is a record                                        *)
(*    [cols : the set of column names, rows : a sequence of rows,          *)
(*     int_rate_dtype : "object" or "float64", copies : a number]          *)
(* in which every row of rows stands for copies equal rows (copies is 1    *)
(* but in the tables handed to validate_cleaned_data, which counts rows up *)
(* to a floor of 1000).  A row is a record with one field per column name  *)
(* the package reads; the field of a column that is not in cols holds a    *)
(* filler and is never read.  grade and loan_status hold strings (NULL     *)
(* for a missing value); every other field holds a cell [k, v, s]:         *)
(*    k = "nan"  a missing value (NaN / None)                              *)
(*    k = "num"  the number v                                              *)
(*    k = "str"  the text s, a sequence of one-character strings           *)
(*                                                                         *)
(* Numbers.  Floating-point columns are held in fixed point: int_rate,     *)
(* annual_inc, emp_length_years and every statistic rounded to 4 decimals  *)
(* are integers counting 1/Scale (10.0 is 100000); the percentages rounded *)
(* to 2 decimals count hundredths (33.33 is 3333); loan_amnt and the       *)
(* volumes are whole currency units; a quotient the code does not round is *)
(* the pair [n, d] of its numerator and denominator, and [n, 0] is the     *)
(* NaN that numpy returns for a division by zero.                          *)
(***************************************************************************)
EXTENDS Integers, Sequences, FiniteSets, TLC

VARIABLES
  raw,        \* the caller's raw table
  focus,      \* the focus_columns of the call of clean_lending_club_data
  cleaned,    \* what clean_lending_club_data(raw, focus) returned or raised
  recleaned,  \* what clean_lending_club_data(cleaned, focus) returned or raised
  vin,        \* the table handed to validate_cleaned_data
  validated,  \* what validate_cleaned_data(vin) returned or raised
  gm,         \* the latest result of calculate_grade_metrics(cleaned)
  gmPrev,     \* the result of the call before it
  pm,         \* the latest result of calculate_portfolio_metrics(cleaned)
  pmPrev,     \* the result of the call before it
  risk,       \* the latest result of identify_risk_thresholds(gmTable, ceiling)
  gmTable,    \* the Grade Metrics table the caller holds and hands on
  rr,         \* the latest result of analyze_risk_return_relationship(gmTable)
  impact,     \* the latest result of calculate_business_impact(cleaned, gmTable)
  helper,     \* the Cleaner function called on raw by itself, and its result
  pc,         \* the step clean_lending_club_data(raw, focus) is at, run step by step
  df_clean    \* its local df_clean at that step

vars ==
  <<raw, focus, cleaned, recleaned, vin, validated, gm, gmPrev, pm, pmPrev, risk,
    gmTable, rr, impact, helper, pc, df_clean>>

----------------------------------------------------------------------------
(* Cells and numbers *)

Scale == 10000

NULL == "<NaN>"

NaN == [k |-> "nan", v |-> 0, s |-> <<>>]

Num(n) == [k |-> "num", v |-> n, s |-> <<>>]

Str(t) == [k |-> "str", v |-> 0, s |-> t]

IsNa(c) == c.k = "nan"

NONE == [status |-> "none"]

Raised(e) == [status |-> "raised", exc |-> e]

RECURSIVE SumSeq(_)
SumSeq(s) == IF s = <<>> THEN 0 ELSE Head(s) + SumSeq(Tail(s))

(* numpy's round of the quotient n / d (n >= 0, d > 0): to the nearest     *)
(* integer, a tie to the even one.                                         *)
RoundDiv(n, d) ==
  LET q == n \div d
      r == n % d
  IN  IF 2 * r < d THEN q
      ELSE IF 2 * r > d THEN q + 1
      ELSE IF q % 2 = 0 THEN q ELSE q + 1

RECURSIVE Insert(_, _)
Insert(x, s) ==
  IF s = <<>> THEN <<x>>
  ELSE IF x <= Head(s) THEN <<x>> \o s
  ELSE <<Head(s)>> \o Insert(x, Tail(s))

RECURSIVE Sorted(_)
Sorted(s) == IF s = <<>> THEN <<>> ELSE Insert(Head(s), Sorted(Tail(s)))

(* Series.median() of the numbers in s, NaN when there is none. *)
Median(s) ==
  LET t == Sorted(s)
      n == Len(t)
  IN  IF n = 0 THEN NaN
      ELSE IF n % 2 = 1 THEN Num(t[(n + 1) \div 2])
      ELSE Num((t[n \div 2] + t[n \div 2 + 1]) \div 2)

----------------------------------------------------------------------------
(* Text: str.rstrip, str.split, the substring test and float() *)

Digits == {"0", "1", "2", "3", "4", "5", "6", "7", "8", "9"}

DigitVal(c) ==
  CASE c = "0" -> 0 [] c = "1" -> 1 [] c = "2" -> 2 [] c = "3" -> 3
    [] c = "4" -> 4 [] c = "5" -> 5 [] c = "6" -> 6 [] c = "7" -> 7
    [] c = "8" -> 8 [] c = "9" -> 9

RECURSIVE RStrip(_, _)
RStrip(t, c) ==
  IF t # <<>> /\ t[Len(t)] = c THEN RStrip(SubSeq(t, 1, Len(t) - 1), c) ELSE t

RECURSIVE LStrip(_, _)
LStrip(t, c) == IF t # <<>> /\ Head(t) = c THEN LStrip(Tail(t), c) ELSE t

RECURSIVE TakeUntil(_, _)
TakeUntil(t, c) ==
  IF t = <<>> \/ Head(t) = c THEN <<>> ELSE <<Head(t)>> \o TakeUntil(Tail(t), c)

(* str.split()[0]: the first whitespace-separated token. *)
FirstToken(t) == TakeUntil(LStrip(t, " "), " ")

Contains(t, sub) ==
  \E i \in 1..(Len(t) - Len(sub) + 1) : SubSeq(t, i, i + Len(sub) - 1) = sub

RECURSIVE DigitsVal(_)
DigitsVal(t) ==
  IF t = <<>> THEN 0 ELSE 10 * DigitsVal(SubSeq(t, 1, Len(t) - 1)) + DigitVal(t[Len(t)])

RECURSIVE Pow10(_)
Pow10(n) == IF n = 0 THEN 1 ELSE 10 * Pow10(n - 1)

(* float(t) for the unsigned decimal literals: surrounding blanks are      *)
(* dropped, then digits with at most one point and at least one digit.     *)
(* [ok |-> FALSE] is Python's ValueError; the value counts 1/Scale.        *)
ParseFloat(t) ==
  LET u == RStrip(LStrip(t, " "), " ")
      ip == TakeUntil(u, ".")
      fp == IF Len(ip) < Len(u) THEN SubSeq(u, Len(ip) + 2, Len(u)) ELSE <<>>
      wellFormed ==
        /\ \A i \in 1..Len(ip) : ip[i] \in Digits
        /\ \A i \in 1..Len(fp) : fp[i] \in Digits
        /\ Len(ip) + Len(fp) > 0
        /\ Len(fp) <= 4
  IN  IF wellFormed
        THEN [ok |-> TRUE,
              v |-> DigitsVal(ip) * Scale + DigitsVal(fp) * Pow10(4 - Len(fp))]
        ELSE [ok |-> FALSE, v |-> 0]

----------------------------------------------------------------------------
(* Tables *)

ESSENTIAL_COLUMNS ==
  {"grade", "sub_grade", "loan_status", "loan_amnt",
   "int_rate", "annual_inc", "emp_length", "purpose"}

COMPLETED_STATUSES == {"Fully Paid", "Charged Off", "Default"}

DEFAULT_STATUSES == {"Charged Off", "Default"}

RowCols ==
  {"grade", "loan_status", "loan_amnt", "int_rate", "annual_inc",
   "emp_length", "is_default", "emp_length_years"}

StringCols == {"grade", "loan_status"}

Blank(c) == IF c \in StringCols THEN NULL ELSE NaN

(* df[columns]: the columns kept, the others gone. *)
Select(df, columns) ==
  [df EXCEPT
     !.cols = columns,
     !.rows = [i \in 1..Len(df.rows) |->
                 [c \in RowCols |-> IF c \in columns THEN df.rows[i][c] ELSE Blank(c)]]]

(* The values of numeric column c in rows, missing values skipped. *)
RECURSIVE Values(_, _)
Values(rows, c) ==
  IF rows = <<>> THEN <<>>
  ELSE IF Head(rows)[c].k = "num" THEN <<Head(rows)[c].v>> \o Values(Tail(rows), c)
  ELSE Values(Tail(rows), c)

----------------------------------------------------------------------------
(* The Cleaner: src/src/data_cleaner.py *)

StripPercent_AsFraction(c) ==
  IF c.k = "str"
    THEN [ok |-> ParseFloat(RStrip(c.s, "%")).ok, v |-> ParseFloat(RStrip(c.s, "%")).v \div 100]
    ELSE [ok |-> TRUE, v |-> 0]

(* One value of int_rate under .str.rstrip('%') and float: the .str        *)
(* accessor gives NaN for a value that is not text.                        *)
StripPercent(c) ==
  IF c.k = "str" THEN ParseFloat(RStrip(c.s, "%")) ELSE [ok |-> TRUE, v |-> 0]

CleanInterestRateRaises(df) ==
  /\ df.int_rate_dtype = "object"
  /\ \E i \in 1..Len(df.rows) : ~StripPercent(df.rows[i]["int_rate"]).ok

clean_interest_rate_Rescaling(df) ==
  [df EXCEPT
     !.int_rate_dtype = "float64",
     !.rows = [i \in 1..Len(df.rows) |->
                 [df.rows[i] EXCEPT
                    !["int_rate"] =
                      IF @.k = "str" THEN Num(StripPercent(@).v \div 100)
                      ELSE IF @.k = "num" THEN Num(@.v \div 100)
                      ELSE NaN]]]

clean_interest_rate(df) ==
  IF df.int_rate_dtype = "object"
    THEN [df EXCEPT
            !.int_rate_dtype = "float64",
            !.rows = [i \in 1..Len(df.rows) |->
                        [df.rows[i] EXCEPT
                           !["int_rate"] =
                             IF @.k = "str" THEN Num(StripPercent(@).v) ELSE NaN]]]
    ELSE df

IsDefault_ChargedOffOnly(loan_status) == IF loan_status = "Charged Off" THEN 1 ELSE 0

IsDefault(loan_status) == IF loan_status \in DEFAULT_STATUSES THEN 1 ELSE 0

add_default_indicator(df) ==
  [df EXCEPT
     !.cols = @ \cup {"is_default"},
     !.rows = [i \in 1..Len(df.rows) |->
                 [df.rows[i] EXCEPT
                    !["is_default"] = Num(IsDefault(df.rows[i]["loan_status"]))]]]

T_lt1year == <<"<", " ", "1", " ", "y", "e", "a", "r">>

T_10plus == <<"1", "0", "+", " ", "y", "e", "a", "r", "s">>

T_year == <<"y", "e", "a", "r">>

ParseError == [k |-> "error", v |-> 0, s |-> <<>>]

(* parse_emp_length; ParseError is the ValueError of float(). *)
parse_emp_length(emp_str) ==
  IF IsNa(emp_str) THEN NaN
  ELSE IF emp_str.k = "str" /\ emp_str.s = T_lt1year THEN Num(Scale \div 2)
  ELSE IF emp_str.k = "str" /\ emp_str.s = T_10plus THEN Num(10 * Scale)
  ELSE IF emp_str.k = "str" /\ Contains(emp_str.s, T_year)
    THEN LET f == ParseFloat(FirstToken(emp_str.s))
         IN  IF f.ok THEN Num(f.v) ELSE ParseError
  ELSE NaN

CleanEmploymentLengthRaises(df) ==
  \E i \in 1..Len(df.rows) : parse_emp_length(df.rows[i]["emp_length"]) = ParseError

clean_employment_length(df) ==
  [df EXCEPT
     !.cols = @ \cup {"emp_length_years"},
     !.rows = [i \in 1..Len(df.rows) |->
                 [df.rows[i] EXCEPT
                    !["emp_length_years"] = parse_emp_length(df.rows[i]["emp_length"])]]]

(* The rows of one grade: a group of groupby('grade'), which leaves out    *)
(* the rows whose grade is missing.                                        *)
GroupRows(rows, g) == SelectSeq(rows, LAMBDA r : r["grade"] = g)

FillIncome_GlobalMedian(rows, r) ==
  IF r["grade"] = NULL THEN NaN
  ELSE IF r["annual_inc"].k = "num" THEN r["annual_inc"]
  ELSE Median(Values(rows, "annual_inc"))

(* groupby('grade')['annual_inc'].transform(lambda x: x.fillna(x.median()))*)
(* for one row: a row of no group gets NaN.                                *)
FillIncome(rows, r) ==
  IF r["grade"] = NULL THEN NaN
  ELSE IF r["annual_inc"].k = "num" THEN r["annual_inc"]
  ELSE Median(Values(GroupRows(rows, r["grade"]), "annual_inc"))

handle_missing_values_EmpByGrade(df) ==
  [df EXCEPT
     !.rows = [i \in 1..Len(df.rows) |->
                 [df.rows[i] EXCEPT
                    !["annual_inc"] =
                      IF "annual_inc" \in df.cols THEN FillIncome(df.rows, df.rows[i]) ELSE @,
                    !["emp_length_years"] =
                      IF "emp_length_years" \in df.cols /\ IsNa(@)
                        THEN Median(Values(GroupRows(df.rows, df.rows[i]["grade"]),
                                           "emp_length_years"))
                        ELSE @]]]

handle_missing_values(df) ==
  LET median_emp == Median(Values(df.rows, "emp_length_years"))
  IN  [df EXCEPT
         !.rows = [i \in 1..Len(df.rows) |->
                     [df.rows[i] EXCEPT
                        !["annual_inc"] =
                          IF "annual_inc" \in df.cols THEN FillIncome(df.rows, df.rows[i]) ELSE @,
                        !["emp_length_years"] =
                          IF "emp_length_years" \in df.cols /\ IsNa(@) THEN median_emp ELSE @]]]

DropMissingCritical_StatusOnly(df) ==
  [df EXCEPT !.rows = SelectSeq(@, LAMBDA r : r["loan_status"] # NULL)]

(* Steps 2 and 3 of clean_lending_club_data. *)
DropMissingCritical(df) ==
  [df EXCEPT !.rows = SelectSeq(@, LAMBDA r : r["grade"] # NULL /\ r["loan_status"] # NULL)]

FilterCompleted_KeepsCurrent(df) ==
  [df EXCEPT
     !.rows = SelectSeq(@, LAMBDA r : r["loan_status"] \in COMPLETED_STATUSES \cup {"Current"})]

FilterCompleted(df) ==
  [df EXCEPT !.rows = SelectSeq(@, LAMBDA r : r["loan_status"] \in COMPLETED_STATUSES)]

(* clean_lending_club_data(df, focus_columns): the table returned, or the  *)
(* exception raised.                                                       *)
clean_lending_club_data(df, focus_columns) ==
  LET available_cols == focus_columns \cap df.cols
      missing_cols == focus_columns \ df.cols
      s1 == Select(df, available_cols)
      s3 == FilterCompleted(DropMissingCritical(s1))
      s4 == IF "int_rate" \in s3.cols THEN clean_interest_rate(s3) ELSE s3
      s5 == add_default_indicator(s4)
      s6 == IF "emp_length" \in s5.cols THEN clean_employment_length(s5) ELSE s5
      s7 == handle_missing_values(s6)
  IN  IF ~({"grade", "loan_status"} \subseteq s1.cols) THEN Raised("KeyError")
      ELSE IF "int_rate" \in s3.cols /\ CleanInterestRateRaises(s3) THEN Raised("ValueError")
      ELSE IF "emp_length" \in s5.cols /\ CleanEmploymentLengthRaises(s5) THEN Raised("ValueError")
      ELSE [status |-> "ok", df |-> s7, missing |-> missing_cols]

MinRows == 1000

REQUIRED_COLUMNS == {"grade", "loan_status", "is_default"}

(* The number of rows of a table of which every row of df.rows stands     *)
(* df.copies times.                                                        *)
NumRows(df) == Len(df.rows) * df.copies

(* The four checks of validate_cleaned_data, by the message each appends. *)
ValidateChecks(df) ==
  LET missing == REQUIRED_COLUMNS \ df.cols
      critical_missing ==
        Cardinality({i \in 1..Len(df.rows) : df.rows[i]["grade"] = NULL})
        + Cardinality({i \in 1..Len(df.rows) : df.rows[i]["loan_status"] = NULL})
        + Cardinality({i \in 1..Len(df.rows) : IsNa(df.rows[i]["is_default"])})
      unique_defaults == {df.rows[i]["is_default"] : i \in 1..Len(df.rows)}
  IN  (IF missing # {} THEN {"Missing required columns"} ELSE {})
      \cup (IF critical_missing * df.copies > 0
              THEN {"Missing values in critical columns"} ELSE {})
      \cup (IF "is_default" \in df.cols /\ ~(unique_defaults \subseteq {Num(0), Num(1)})
              THEN {"Default indicator not binary"} ELSE {})
      \cup (IF NumRows(df) < MinRows THEN {"Very few rows remaining"} ELSE {})

(* validate_cleaned_data(df): True, or the exception raised.  The lookup   *)
(* df[['grade', 'loan_status', 'is_default']] raises KeyError when one of  *)
(* the three is not a column.                                              *)
validate_cleaned_data(df) ==
  IF ~(REQUIRED_COLUMNS \subseteq df.cols)
    THEN [status |-> "raised", exc |-> "KeyError", checks |-> {}]
  ELSE IF ValidateChecks(df) # {}
    THEN [status |-> "raised", exc |-> "ValueError", checks |-> ValidateChecks(df)]
  ELSE [status |-> "ok", exc |-> "", checks |-> {}]

----------------------------------------------------------------------------
(* The Analyzer: src/src/analyzer.py *)

(* The order in which groupby('grade') returns its groups: sorted keys. *)
GradeOrder == <<"A", "B", "C", "D", "E", "F", "G">>

GroupKeys_WithDefaults(rows) ==
  SelectSeq(GradeOrder,
            LAMBDA g : \E i \in 1..Len(rows) :
                         rows[i]["grade"] = g /\ rows[i]["is_default"] = Num(1))

GroupKeys(rows) ==
  SelectSeq(GradeOrder, LAMBDA g : \E i \in 1..Len(rows) : rows[i]["grade"] = g)

(* n / d rounded to the nearest whole, NaN when the divisor is zero. *)
Ratio(n, d) == IF d = 0 THEN NaN ELSE Num(RoundDiv(n, d))

(* The mean of column c over rows, rounded to 4 decimals (.round(4)). *)
MeanRounded(rows, c) ==
  LET xs == Values(rows, c) IN Ratio(SumSeq(xs), Len(xs))

AGG_COLUMNS == {"grade", "is_default", "loan_amnt", "int_rate", "annual_inc"}

GradeRow_ShareOfLoans(rows, g, total) ==
  LET grp == GroupRows(rows, g)
      flags == Values(grp, "is_default")
      default_rate == Ratio(SumSeq(flags) * Scale, Len(flags))
      avg_interest_rate == MeanRounded(grp, "int_rate")
  IN  [grade |-> g,
       total_loans |-> Len(flags),
       num_defaults |-> SumSeq(flags),
       default_rate |-> default_rate,
       total_volume |-> SumSeq(Values(grp, "loan_amnt")),
       avg_interest_rate |-> avg_interest_rate,
       default_rate_pct |-> default_rate,
       volume_share_pct |-> Ratio(Len(flags) * 100 * 100, Len(Values(rows, "is_default"))),
       expected_return_pct |->
         IF IsNa(default_rate) \/ IsNa(avg_interest_rate) THEN NaN
         ELSE Ratio(avg_interest_rate.v * (Scale - default_rate.v), Scale * 100)]

(* One row of the table of calculate_grade_metrics: the aggregates of one  *)
(* group and the derived percentages.  total is the sum of total_volume    *)
(* over all groups.  The medians and standard deviations are left out: no  *)
(* later function of the package reads them.                               *)
GradeRow(rows, g, total) ==
  LET grp == GroupRows(rows, g)
      flags == Values(grp, "is_default")
      total_loans == Len(flags)
      num_defaults == SumSeq(flags)
      default_rate == Ratio(num_defaults * Scale, total_loans)
      total_volume == SumSeq(Values(grp, "loan_amnt"))
      avg_interest_rate == MeanRounded(grp, "int_rate")
  IN  [grade |-> g,
       total_loans |-> total_loans,
       num_defaults |-> num_defaults,
       default_rate |-> default_rate,
       total_volume |-> total_volume,
       avg_interest_rate |-> avg_interest_rate,
       default_rate_pct |->
         IF IsNa(default_rate) THEN NaN ELSE Ratio(default_rate.v * 100 * 100, Scale),
       volume_share_pct |-> Ratio(total_volume * 100 * 100, total),
       expected_return_pct |->
         IF IsNa(default_rate) \/ IsNa(avg_interest_rate) THEN NaN
         ELSE Ratio(avg_interest_rate.v * (Scale - default_rate.v), Scale * 100)]

(* calculate_grade_metrics(df): one row per group, or the KeyError of an   *)
(* aggregated column that is absent.                                       *)
calculate_grade_metrics(df) ==
  LET keys == GroupKeys(df.rows)
      volumes == [i \in 1..Len(keys) |->
                    SumSeq(Values(GroupRows(df.rows, keys[i]), "loan_amnt"))]
  IN  IF ~(AGG_COLUMNS \subseteq df.cols) THEN Raised("KeyError")
      ELSE [status |-> "ok",
            rows |-> [i \in 1..Len(keys) |-> GradeRow(df.rows, keys[i], SumSeq(volumes))]]

HIGH_RISK_GRADES == {"F", "G"}

RECURSIVE MaxOf(_)
MaxOf(s) ==
  IF s = <<>> THEN 0
  ELSE IF Head(s) >= MaxOf(Tail(s)) THEN Head(s) ELSE MaxOf(Tail(s))

(* calculate_portfolio_metrics(df).  A quotient the code does not round is *)
(* the pair of its numerator and denominator.                              *)
calculate_portfolio_metrics(df) ==
  LET rows == df.rows
      amounts == Values(rows, "loan_amnt")
      flags == Values(rows, "is_default")
      rates == Values(rows, "int_rate")
      defaulted == SelectSeq(rows, LAMBDA r : r["is_default"] = Num(1))
      high_risk == SelectSeq(rows, LAMBDA r : r["grade"] \in HIGH_RISK_GRADES)
      keys == GroupKeys(rows)
      counts == [i \in 1..Len(keys) |-> Len(GroupRows(rows, keys[i]))]
  IN  IF ~({"loan_amnt", "is_default", "int_rate", "grade"} \subseteq df.cols)
        THEN Raised("KeyError")
      ELSE [status |-> "ok",
            total_loans |-> Len(rows),
            total_volume |-> SumSeq(amounts),
            avg_loan_size |-> [n |-> SumSeq(amounts), d |-> Len(amounts)],
            overall_default_rate |-> [n |-> SumSeq(flags), d |-> Len(flags)],
            overall_default_rate_pct |-> [n |-> SumSeq(flags) * 100, d |-> Len(flags)],
            avg_interest_rate |-> [n |-> SumSeq(rates), d |-> Len(rates)],
            total_defaults |-> SumSeq(flags),
            default_volume |-> SumSeq(Values(defaulted, "loan_amnt")),
            max_grade_concentration_pct |-> [n |-> MaxOf(counts) * 100, d |-> SumSeq(counts)],
            high_risk_loans_pct |-> [n |-> Len(high_risk) * 100, d |-> Len(rows)],
            high_risk_volume_pct |->
              [n |-> SumSeq(Values(high_risk, "loan_amnt")) * 100, d |-> SumSeq(amounts)]]

AboveThreshold_Inclusive(row, acceptable_default_rate) ==
  row.default_rate_pct.k = "num" /\ row.default_rate_pct.v >= acceptable_default_rate

(* Whether a grade's default_rate_pct is above the ceiling: NaN compares   *)
(* False both ways.                                                        *)
AboveThreshold(row, acceptable_default_rate) ==
  row.default_rate_pct.k = "num" /\ row.default_rate_pct.v > acceptable_default_rate

AtOrBelowThreshold(row, acceptable_default_rate) ==
  row.default_rate_pct.k = "num" /\ row.default_rate_pct.v <= acceptable_default_rate

RECURSIVE Column(_, _)
Column(rows, c) == IF rows = <<>> THEN <<>> ELSE <<Head(rows)[c]>> \o Column(Tail(rows), c)

EXPOSURE_CEILING == 20

Recommendation_Inclusive(exposure) ==
  IF exposure.d # 0 /\ exposure.n >= EXPOSURE_CEILING * exposure.d
    THEN "REVIEW_EXPOSURE" ELSE "ACCEPTABLE"

(* 'REVIEW_EXPOSURE' if high_risk_exposure_pct > 20 else 'ACCEPTABLE': the *)
(* comparison of NaN (a zero divisor) is False.                            *)
Recommendation(exposure) ==
  IF exposure.d # 0 /\ exposure.n > EXPOSURE_CEILING * exposure.d
    THEN "REVIEW_EXPOSURE" ELSE "ACCEPTABLE"

(* identify_risk_thresholds(grade_metrics, acceptable_default_rate); the   *)
(* ceiling counts hundredths of a percent.                                 *)
identify_risk_thresholds(grade_metrics, acceptable_default_rate) ==
  LET high_risk_grades ==
        Column(SelectSeq(grade_metrics,
                         LAMBDA r : AboveThreshold(r, acceptable_default_rate)), "grade")
      acceptable_grades ==
        Column(SelectSeq(grade_metrics,
                         LAMBDA r : AtOrBelowThreshold(r, acceptable_default_rate)), "grade")
      high_risk_volume ==
        SumSeq(Column(SelectSeq(grade_metrics,
                                LAMBDA r : \E i \in 1..Len(high_risk_grades) :
                                             high_risk_grades[i] = r.grade),
                      "total_volume"))
      total_volume == SumSeq(Column(grade_metrics, "total_volume"))
      high_risk_exposure_pct == [n |-> high_risk_volume * 100, d |-> total_volume]
  IN  [status |-> "ok",
       acceptable_default_rate |-> acceptable_default_rate,
       high_risk_grades |-> high_risk_grades,
       acceptable_grades |-> acceptable_grades,
       high_risk_exposure_pct |-> high_risk_exposure_pct,
       num_high_risk_grades |-> Len(high_risk_grades),
       recommendation |-> Recommendation(high_risk_exposure_pct)]

(* avg_interest_rate - default_rate_pct of one grade, counting 1/Scale     *)
(* (default_rate_pct counts hundredths); NaN when either is.               *)
RiskPremium(row) ==
  IF IsNa(row.avg_interest_rate) \/ IsNa(row.default_rate_pct) THEN NaN
  ELSE Num(row.avg_interest_rate.v - row.default_rate_pct.v * (Scale \div 100))

(* row with column c set to v: the column is added when it is not there. *)
SetColumn(row, c, v) ==
  [x \in DOMAIN row \cup {c} |-> IF x = c THEN v ELSE row[x]]

(* grade_metrics['risk_premium'] = ...: the assignment of line 160, made   *)
(* on the table the caller handed in.                                      *)
WithRiskPremium(grade_metrics) ==
  [i \in 1..Len(grade_metrics) |->
     SetColumn(grade_metrics[i], "risk_premium", RiskPremium(grade_metrics[i]))]

(* The positions of the rows whose risk_premium is a number. *)
PremiumIndex(rows) == {i \in 1..Len(rows) : rows[i]["risk_premium"].k = "num"}

(* Series.idxmin(): the first position of the least value, NaN skipped. *)
IdxMin(rows) ==
  CHOOSE i \in PremiumIndex(rows) :
    \A j \in PremiumIndex(rows) :
      \/ rows[i]["risk_premium"].v < rows[j]["risk_premium"].v
      \/ rows[i]["risk_premium"].v = rows[j]["risk_premium"].v /\ i <= j

IdxMax_LastOfTies(rows) ==
  CHOOSE i \in PremiumIndex(rows) :
    \A j \in PremiumIndex(rows) :
      \/ rows[i]["risk_premium"].v > rows[j]["risk_premium"].v
      \/ rows[i]["risk_premium"].v = rows[j]["risk_premium"].v /\ i >= j

(* Series.idxmax(): the first position of the greatest value, NaN skipped. *)
IdxMax(rows) ==
  CHOOSE i \in PremiumIndex(rows) :
    \A j \in PremiumIndex(rows) :
      \/ rows[i]["risk_premium"].v > rows[j]["risk_premium"].v
      \/ rows[i]["risk_premium"].v = rows[j]["risk_premium"].v /\ i <= j

(* The exceptions idxmin can end in when no risk_premium is a number: an   *)
(* empty column raises ValueError; a column of NaN only raises ValueError  *)
(* or gives NaN, on which .loc raises KeyError, by the version of pandas.  *)
IdxMinExceptions(rows) ==
  IF rows = <<>> THEN {"ValueError"} ELSE {"ValueError", "KeyError"}

(* The dictionary analyze_risk_return_relationship returns for the table   *)
(* rows, which holds risk_premium.  risk_return_correlation is left out:   *)
(* nothing in the package reads it.                                        *)
RiskReturnAnalysis(rows) ==
  LET premiums == Values(rows, "risk_premium")
  IN  [status |-> "ok",
       avg_risk_premium |-> [n |-> SumSeq(premiums), d |-> Len(premiums)],
       worst_risk_return_grade |-> rows[IdxMin(rows)]["grade"],
       best_risk_return_grade |-> rows[IdxMax(rows)]["grade"]]

IMPACT_COLUMNS == {"grade", "is_default", "loan_amnt", "int_rate"}

(* df['loan_amnt'] * df['int_rate'] of the rows in which both are numbers; *)
(* a product counts 1/Scale.                                               *)
RECURSIVE InterestProducts(_)
InterestProducts(rows) ==
  IF rows = <<>> THEN <<>>
  ELSE IF Head(rows)["loan_amnt"].k = "num" /\ Head(rows)["int_rate"].k = "num"
    THEN <<Head(rows)["loan_amnt"].v * Head(rows)["int_rate"].v>>
           \o InterestProducts(Tail(rows))
  ELSE InterestProducts(Tail(rows))

(* calculate_business_impact(df, grade_metrics), which reads df only.      *)
(* total_interest_revenue counts 1/(100 * Scale), and so does the divisor  *)
(* of loss_to_revenue_ratio.                                               *)
calculate_business_impact(df) ==
  LET defaulted == SelectSeq(df.rows, LAMBDA r : r["is_default"] = Num(1))
      high_risk == SelectSeq(defaulted, LAMBDA r : r["grade"] \in HIGH_RISK_GRADES)
      high_risk_defaults == SumSeq(Values(high_risk, "loan_amnt"))
      total_defaults_value == SumSeq(Values(defaulted, "loan_amnt"))
      total_interest_revenue == SumSeq(InterestProducts(df.rows))
  IN  IF ~(IMPACT_COLUMNS \subseteq df.cols) THEN Raised("KeyError")
      ELSE [status |-> "ok",
            total_default_losses |-> total_defaults_value,
            high_risk_default_losses |-> high_risk_defaults,
            potential_loss_reduction_pct |->
              [n |-> high_risk_defaults * 100, d |-> total_defaults_value],
            total_interest_revenue |-> total_interest_revenue,
            loss_to_revenue_ratio |->
              [n |-> total_defaults_value * 100, d |-> total_interest_revenue]]

----------------------------------------------------------------------------
(* The inputs: raw tables as pd.read_csv returns them (a column holding    *)
(* any text is text or missing throughout, dtype object; a column of       *)
(* numbers is float64), every table of 1 to MaxRows rows drawn from one of *)
(* the row sets below.                                                     *)

MaxRows == 3

Row(g, st, amt, ir, inc, emp) ==
  [c \in RowCols |->
     CASE c = "grade" -> g
       [] c = "loan_status" -> st
       [] c = "loan_amnt" -> amt
       [] c = "int_rate" -> ir
       [] c = "annual_inc" -> inc
       [] c = "emp_length" -> emp
       [] OTHER -> NaN]

Table(columns, rows, dtype) ==
  [cols |-> columns, rows |-> rows, int_rate_dtype |-> dtype, copies |-> 1]

SeqsUpTo(S, n) == UNION {[1..k -> S] : k \in 1..n}

Tables(columns, rowSet, dtype) ==
  {Table(columns, rows, dtype) : rows \in SeqsUpTo(rowSet, MaxRows)}

T_10pct == <<"1", "0", "%">>

T_12pct == <<"1", "2", "%">>

T_8pct == <<"8", "%">>

T_10_5pct == <<"1", "0", ".", "5", "%", "%">>

T_na == <<"n", "/", "a">>

T_3years == <<"3", " ", "y", "e", "a", "r", "s">>

T_1year == <<"1", " ", "y", "e", "a", "r">>

T_years == <<"y", "e", "a", "r", "s">>

(* Grades and statuses, missing or not; no other column. *)
StatusRows ==
  {Row(g, st, NaN, NaN, NaN, NaN) :
     g \in {NULL, "A"}, st \in {NULL, "Fully Paid", "Charged Off", "Default", "Current"}}
  \cup {Row("B", "Current", NaN, NaN, NaN, NaN)}

(* int_rate as text: the rows of the three-row scenario, a missing rate, a *)
(* rate with a fraction and two percent signs, and text that is no number  *)
(* in a completed and in a current loan.                                   *)
RateTextRows ==
  {Row("A", "Fully Paid", Num(1000), Str(T_10pct), NaN, NaN),
   Row("A", "Charged Off", Num(2000), Str(T_12pct), NaN, NaN),
   Row("B", "Current", Num(500), Str(T_8pct), NaN, NaN),
   Row("B", "Default", Num(500), Str(T_10_5pct), NaN, NaN),
   Row("A", "Fully Paid", Num(1000), NaN, NaN, NaN),
   Row("A", "Fully Paid", Num(1000), Str(T_na), NaN, NaN),
   Row("A", "Current", Num(1000), Str(T_na), NaN, NaN)}

RateNumberRows ==
  {Row("A", "Fully Paid", Num(1000), Num(10 * Scale), NaN, NaN),
   Row("A", "Charged Off", Num(2000), Num(12 * Scale), NaN, NaN),
   Row("B", "Current", Num(500), Num(8 * Scale), NaN, NaN),
   Row("A", "Fully Paid", Num(1000), NaN, NaN, NaN)}

EmpLengthRows ==
  {Row("A", "Fully Paid", NaN, NaN, NaN, Str(T_lt1year)),
   Row("A", "Fully Paid", NaN, NaN, NaN, Str(T_10plus)),
   Row("A", "Charged Off", NaN, NaN, NaN, Str(T_3years)),
   Row("B", "Fully Paid", NaN, NaN, NaN, Str(T_1year)),
   Row("B", "Fully Paid", NaN, NaN, NaN, NaN),
   Row("A", "Fully Paid", NaN, NaN, NaN, Str(T_na)),
   Row("A", "Default", NaN, NaN, NaN, Str(T_years)),
   Row("A", "Current", NaN, NaN, NaN, Str(T_10plus))}

IncomeRows ==
  {Row("C", "Fully Paid", NaN, NaN, NaN, NaN),
   Row("C", "Charged Off", NaN, NaN, Num(2 * Scale), NaN),
   Row("C", "Fully Paid", NaN, NaN, Num(4 * Scale), NaN),
   Row("A", "Fully Paid", NaN, NaN, Num(10 * Scale), NaN),
   Row("A", "Default", NaN, NaN, NaN, NaN),
   Row("C", "Current", NaN, NaN, Num(100 * Scale), NaN)}

(* Tables in which a critical column is absent. *)
PartialRows ==
  {Row("A", "Fully Paid", Num(1000), NaN, NaN, NaN),
   Row("A", "Current", Num(1000), NaN, NaN, NaN)}

RawTables ==
  Tables({"grade", "loan_status"}, StatusRows, "float64")
  \cup Tables({"grade", "loan_status", "loan_amnt", "int_rate"}, RateTextRows, "object")
  \cup Tables({"grade", "loan_status", "loan_amnt", "int_rate"}, RateNumberRows, "float64")
  \cup Tables({"grade", "loan_status", "emp_length"}, EmpLengthRows, "float64")
  \cup Tables({"grade", "loan_status", "annual_inc"}, IncomeRows, "float64")
  \cup {Select(t, columns) :
          t \in Tables({"grade", "loan_status", "loan_amnt"}, PartialRows, "float64"),
          columns \in {{"loan_status", "loan_amnt"}, {"grade", "loan_amnt"}, {"loan_amnt"}}}

(* focus_columns: the default, the default with the two derived columns,   *)
(* and a list that leaves grade out.                                       *)
FocusLists ==
  {ESSENTIAL_COLUMNS,
   ESSENTIAL_COLUMNS \cup {"is_default", "emp_length_years"},
   {"loan_status", "loan_amnt", "int_rate"}}

(* The tables handed to validate_cleaned_data: sound rows, a flag that is *)
(* neither 0 nor 1, a missing flag, a missing grade and a missing status;  *)
(* every row standing copies times, to reach the floor of MinRows rows.    *)
ValidateRowSet ==
  {[Row("A", "Fully Paid", NaN, NaN, NaN, NaN) EXCEPT !["is_default"] = Num(0)],
   [Row("A", "Charged Off", NaN, NaN, NaN, NaN) EXCEPT !["is_default"] = Num(1)],
   [Row("A", "Fully Paid", NaN, NaN, NaN, NaN) EXCEPT !["is_default"] = Num(2)],
   [Row("A", "Fully Paid", NaN, NaN, NaN, NaN) EXCEPT !["is_default"] = NaN],
   [Row(NULL, "Fully Paid", NaN, NaN, NaN, NaN) EXCEPT !["is_default"] = Num(0)],
   [Row("A", NULL, NaN, NaN, NaN, NaN) EXCEPT !["is_default"] = Num(0)]}

ValidateTables ==
  {[Select(t, columns) EXCEPT !.copies = n] :
     t \in Tables(REQUIRED_COLUMNS, ValidateRowSet, "float64"),
     columns \in {REQUIRED_COLUMNS, {"grade", "loan_status"}, {"loan_status", "is_default"}, {}},
     n \in {1, MinRows - 1, MinRows}}

(* The raw tables of the Analyzer runs: every column the aggregation       *)
(* reads, numeric rates; three grades with both outcomes and loans of      *)
(* amount 1, loans of amount 0 and 4, a loan still current and a loan      *)
(* whose grade is missing.                                                 *)
AnalyzerRows ==
  {Row(g, st, Num(1), Num(12 * Scale), Num(5 * Scale), NaN) :
     g \in {"A", "B", "C"}, st \in {"Fully Paid", "Charged Off"}}
  \cup {Row("A", "Fully Paid", Num(a), Num(10 * Scale), Num(5 * Scale), NaN) : a \in {0, 4}}
  \cup {Row("A", "Current", Num(4), Num(10 * Scale), Num(5 * Scale), NaN),
        Row(NULL, "Fully Paid", Num(4), Num(10 * Scale), Num(5 * Scale), NaN)}

AnalyzerTables ==
  Tables({"grade", "loan_status", "loan_amnt", "int_rate", "annual_inc"},
         AnalyzerRows, "float64")

(* The raw tables of the risk-return runs: two grades of equal rate with   *)
(* both outcomes, a grade of a lower rate and of a missing rate, a         *)
(* defaulted loan of the high-risk grade F and a loan still current.       *)
RiskReturnRows ==
  {Row(g, st, Num(1), Num(12 * Scale), Num(5 * Scale), NaN) :
     g \in {"A", "B"}, st \in {"Fully Paid", "Charged Off"}}
  \cup {Row("C", "Fully Paid", Num(2), Num(10 * Scale), Num(5 * Scale), NaN),
        Row("C", "Fully Paid", Num(2), NaN, Num(5 * Scale), NaN),
        Row("F", "Charged Off", Num(2), Num(20 * Scale), Num(5 * Scale), NaN),
        Row("A", "Current", Num(4), Num(10 * Scale), Num(5 * Scale), NaN)}

RiskReturnTables ==
  Tables({"grade", "loan_status", "loan_amnt", "int_rate", "annual_inc"},
         RiskReturnRows, "float64")

(* Tables handed to handle_missing_values by itself: incomes and parsed    *)
(* employment years, present or missing, in two grades and in rows whose   *)
(* grade is missing (in a table that holds another row with a grade).     *)
ImputeRows ==
  {[Row(r[1], "Fully Paid", NaN, NaN, r[2], NaN) EXCEPT !["emp_length_years"] = r[3]] :
     r \in {<<"C", NaN, NaN>>,
            <<"C", Num(2 * Scale), Num(1 * Scale)>>,
            <<"C", Num(4 * Scale), Num(3 * Scale)>>,
            <<"A", Num(10 * Scale), NaN>>,
            <<"A", NaN, Num(10 * Scale)>>,
            <<NULL, Num(6 * Scale), Num(Scale \div 2)>>,
            <<NULL, NaN, NaN>>}}

(* The tables the Cleaner's functions are called on one by one. *)
HelperTables ==
  Tables({"grade", "loan_status", "loan_amnt", "int_rate"}, RateTextRows, "object")
  \cup Tables({"grade", "loan_status", "loan_amnt", "int_rate"}, RateNumberRows, "float64")
  \cup Tables({"grade", "loan_status", "emp_length"}, EmpLengthRows, "float64")
  \cup Tables({"grade", "loan_status", "annual_inc"}, IncomeRows, "float64")
  \cup {t \in Tables({"grade", "loan_status", "annual_inc", "emp_length_years"},
                     ImputeRows, "float64") :
          \E i \in 1..Len(t.rows) : t.rows[i]["grade"] # NULL}

DefaultCeiling == 1500

(* acceptable_default_rate, in hundredths of a percent: the default 15.0   *)
(* and 50.0.                                                               *)
Ceilings == {DefaultCeiling, 5000}

----------------------------------------------------------------------------
(* The calls *)

NoCall == [fn |-> "none", out |-> NONE]

Idle ==
  /\ focus = {}
  /\ cleaned = NONE
  /\ recleaned = NONE
  /\ validated = NONE
  /\ gm = NONE
  /\ gmPrev = NONE
  /\ pm = NONE
  /\ pmPrev = NONE
  /\ risk = NONE
  /\ gmTable = NONE
  /\ rr = NONE
  /\ impact = NONE
  /\ helper = NoCall
  /\ pc = "idle"
  /\ df_clean = NONE

Init == raw \in RawTables /\ vin = NONE /\ Idle

InitValidate == raw = NONE /\ vin \in ValidateTables /\ Idle

InitAnalyzer == raw \in AnalyzerTables /\ vin = NONE /\ Idle

InitRiskReturn == raw \in RiskReturnTables /\ vin = NONE /\ Idle

InitHelpers == raw \in HelperTables /\ vin = NONE /\ Idle

InitPipeline == raw \in RawTables /\ vin = NONE /\ Idle

(* cleaned = clean_lending_club_data(raw, focus_columns) *)
CleanData(focus_columns) ==
  /\ raw # NONE
  /\ cleaned = NONE
  /\ focus' = focus_columns
  /\ cleaned' = clean_lending_club_data(raw, focus_columns)
  /\ UNCHANGED <<raw, recleaned, vin, validated, gm, gmPrev, pm, pmPrev, risk,
                 gmTable, rr, impact, helper, pc, df_clean>>

(* recleaned = clean_lending_club_data(cleaned, focus_columns) *)
CleanAgain ==
  /\ cleaned.status = "ok"
  /\ recleaned = NONE
  /\ recleaned' = clean_lending_club_data(cleaned.df, focus)
  /\ UNCHANGED <<raw, focus, cleaned, vin, validated, gm, gmPrev, pm, pmPrev,
                 risk, gmTable, rr, impact, helper, pc, df_clean>>

(* validated = validate_cleaned_data(vin) *)
ValidateData ==
  /\ vin # NONE
  /\ validated = NONE
  /\ validated' = validate_cleaned_data(vin)
  /\ UNCHANGED <<raw, focus, cleaned, recleaned, vin, gm, gmPrev, pm, pmPrev,
                 risk, gmTable, rr, impact, helper, pc, df_clean>>

RECURSIVE DropDuplicates(_)
DropDuplicates(rows) ==
  IF rows = <<>> THEN <<>>
  ELSE LET init == DropDuplicates(SubSeq(rows, 1, Len(rows) - 1))
           last == rows[Len(rows)]
       IN  IF \E i \in 1..Len(init) : init[i] = last THEN init ELSE Append(init, last)

CalculateGradeMetrics_InPlace ==
  /\ cleaned.status = "ok"
  /\ gm' = calculate_grade_metrics(cleaned.df)
  /\ gmPrev' = gm
  /\ gmTable' = calculate_grade_metrics(cleaned.df)
  /\ cleaned' = [cleaned EXCEPT !.df.rows = DropDuplicates(@)]
  /\ UNCHANGED <<raw, focus, recleaned, vin, validated, pm, pmPrev, risk, rr,
                 impact, helper, pc, df_clean>>

(* gm = calculate_grade_metrics(cleaned); the function only reads df.  gm  *)
(* records what the call returned, and gmTable is the table itself,  *)
(* which the caller holds from now on.                                     *)
CalculateGradeMetrics ==
  /\ cleaned.status = "ok"
  /\ gm' = calculate_grade_metrics(cleaned.df)
  /\ gmPrev' = gm
  /\ gmTable' = calculate_grade_metrics(cleaned.df)
  /\ UNCHANGED <<raw, focus, cleaned, recleaned, vin, validated, pm, pmPrev,
                 risk, rr, impact, helper, pc, df_clean>>

(* pm = calculate_portfolio_metrics(cleaned); the function only reads df. *)
CalculatePortfolioMetrics ==
  /\ cleaned.status = "ok"
  /\ pm' = calculate_portfolio_metrics(cleaned.df)
  /\ pmPrev' = pm
  /\ UNCHANGED <<raw, focus, cleaned, recleaned, vin, validated, gm, gmPrev,
                 risk, gmTable, rr, impact, helper, pc, df_clean>>

(* risk = identify_risk_thresholds(gmTable, acceptable_default_rate) *)
IdentifyRiskThresholds(acceptable_default_rate) ==
  /\ gmTable.status = "ok"
  /\ risk' = identify_risk_thresholds(gmTable.rows, acceptable_default_rate)
  /\ UNCHANGED <<raw, focus, cleaned, recleaned, vin, validated, gm, gmPrev,
                 pm, pmPrev, gmTable, rr, impact, helper, pc, df_clean>>

(* rr = analyze_risk_return_relationship(gmTable): line 160 adds the *)
(* column risk_premium to the caller's table before idxmin can raise.      *)
AnalyzeRiskReturn ==
  /\ gmTable.status = "ok"
  /\ gmTable' = [gmTable EXCEPT !.rows = WithRiskPremium(@)]
  /\ LET rows == WithRiskPremium(gmTable.rows)
     IN  IF PremiumIndex(rows) = {}
           THEN \E e \in IdxMinExceptions(rows) : rr' = Raised(e)
           ELSE rr' = RiskReturnAnalysis(rows)
  /\ UNCHANGED <<raw, focus, cleaned, recleaned, vin, validated, gm, gmPrev,
                 pm, pmPrev, risk, impact, helper, pc, df_clean>>

(* impact = calculate_business_impact(cleaned, gmTable) *)
CalculateBusinessImpact ==
  /\ cleaned.status = "ok"
  /\ gmTable.status = "ok"
  /\ impact' = calculate_business_impact(cleaned.df)
  /\ UNCHANGED <<raw, focus, cleaned, recleaned, vin, validated, gm, gmPrev,
                 pm, pmPrev, risk, gmTable, rr, helper, pc, df_clean>>

Returned(df) == [status |-> "ok", df |-> df]

(* helper = clean_interest_rate(raw); df['int_rate'] raises KeyError when  *)
(* the column is absent.                                                   *)
CallCleanInterestRate ==
  /\ raw # NONE
  /\ helper = NoCall
  /\ helper' =
       [fn |-> "clean_interest_rate",
        out |-> IF "int_rate" \notin raw.cols THEN Raised("KeyError")
                ELSE IF CleanInterestRateRaises(raw) THEN Raised("ValueError")
                ELSE Returned(clean_interest_rate(raw))]
  /\ UNCHANGED <<raw, focus, cleaned, recleaned, vin, validated, gm, gmPrev, pm,
                 pmPrev, risk, gmTable, rr, impact, pc, df_clean>>

(* helper = add_default_indicator(raw) *)
CallAddDefaultIndicator ==
  /\ raw # NONE
  /\ helper = NoCall
  /\ helper' =
       [fn |-> "add_default_indicator",
        out |-> IF "loan_status" \notin raw.cols THEN Raised("KeyError")
                ELSE Returned(add_default_indicator(raw))]
  /\ UNCHANGED <<raw, focus, cleaned, recleaned, vin, validated, gm, gmPrev, pm,
                 pmPrev, risk, gmTable, rr, impact, pc, df_clean>>

(* helper = clean_employment_length(raw); the ValueError of float() leaves *)
(* apply() and the function.                                               *)
CallCleanEmploymentLength ==
  /\ raw # NONE
  /\ helper = NoCall
  /\ helper' =
       [fn |-> "clean_employment_length",
        out |-> IF "emp_length" \notin raw.cols THEN Raised("KeyError")
                ELSE IF CleanEmploymentLengthRaises(raw) THEN Raised("ValueError")
                ELSE Returned(clean_employment_length(raw))]
  /\ UNCHANGED <<raw, focus, cleaned, recleaned, vin, validated, gm, gmPrev, pm,
                 pmPrev, risk, gmTable, rr, impact, pc, df_clean>>

(* helper = handle_missing_values(raw); groupby('grade') raises KeyError   *)
(* when there is an annual_inc column and no grade column.                 *)
CallHandleMissingValues ==
  /\ raw # NONE
  /\ helper = NoCall
  /\ helper' =
       [fn |-> "handle_missing_values",
        out |-> IF "annual_inc" \in raw.cols /\ "grade" \notin raw.cols
                  THEN Raised("KeyError")
                ELSE Returned(handle_missing_values(raw))]
  /\ UNCHANGED <<raw, focus, cleaned, recleaned, vin, validated, gm, gmPrev, pm,
                 pmPrev, risk, gmTable, rr, impact, pc, df_clean>>

(* clean_lending_club_data(raw, focus_columns) run step by step: pc names  *)
(* the step that was completed last, "raised" when a step raised, and      *)
(* df_clean is the local table after it.                                   *)

(* Step 1: df_clean = df[available_cols].copy() *)
SelectColumns(focus_columns) ==
  /\ raw # NONE
  /\ pc = "idle"
  /\ focus' = focus_columns
  /\ df_clean' = Select(raw, focus_columns \cap raw.cols)
  /\ pc' = "projected"
  /\ UNCHANGED <<raw, cleaned, recleaned, vin, validated, gm, gmPrev, pm, pmPrev,
                 risk, gmTable, rr, impact, helper>>

(* Step 2: df_clean.dropna(subset=['grade', 'loan_status']) *)
DropCritical ==
  /\ pc = "projected"
  /\ IF {"grade", "loan_status"} \subseteq df_clean.cols
       THEN /\ pc' = "dropped"
            /\ df_clean' =
                 [df_clean EXCEPT
                    !.rows = SelectSeq(@, LAMBDA r : r["grade"] # NULL /\ r["loan_status"] # NULL)]
       ELSE pc' = "raised" /\ UNCHANGED df_clean
  /\ UNCHANGED <<raw, focus, cleaned, recleaned, vin, validated, gm, gmPrev, pm,
                 pmPrev, risk, gmTable, rr, impact, helper>>

(* Step 3: df_clean[df_clean['loan_status'].isin(COMPLETED_STATUSES)] *)
FilterStatus ==
  /\ pc = "dropped"
  /\ pc' = "filtered"
  /\ df_clean' = FilterCompleted(df_clean)
  /\ UNCHANGED <<raw, focus, cleaned, recleaned, vin, validated, gm, gmPrev, pm,
                 pmPrev, risk, gmTable, rr, impact, helper>>

(* Step 4: clean_interest_rate, when there is an int_rate column *)
NormalizeInterestRate ==
  /\ pc = "filtered"
  /\ IF "int_rate" \in df_clean.cols /\ CleanInterestRateRaises(df_clean)
       THEN pc' = "raised" /\ UNCHANGED df_clean
       ELSE /\ pc' = "rate"
            /\ df_clean' =
                 IF "int_rate" \in df_clean.cols THEN clean_interest_rate(df_clean)
                 ELSE df_clean
  /\ UNCHANGED <<raw, focus, cleaned, recleaned, vin, validated, gm, gmPrev, pm,
                 pmPrev, risk, gmTable, rr, impact, helper>>

(* Step 5: add_default_indicator *)
DeriveOutcome ==
  /\ pc = "rate"
  /\ pc' = "outcome"
  /\ df_clean' = add_default_indicator(df_clean)
  /\ UNCHANGED <<raw, focus, cleaned, recleaned, vin, validated, gm, gmPrev, pm,
                 pmPrev, risk, gmTable, rr, impact, helper>>

(* Step 6: clean_employment_length, when there is an emp_length column *)
NormalizeEmploymentLength ==
  /\ pc = "outcome"
  /\ IF "emp_length" \in df_clean.cols /\ CleanEmploymentLengthRaises(df_clean)
       THEN pc' = "raised" /\ UNCHANGED df_clean
       ELSE /\ pc' = "employment"
            /\ df_clean' =
                 IF "emp_length" \in df_clean.cols THEN clean_employment_length(df_clean)
                 ELSE df_clean
  /\ UNCHANGED <<raw, focus, cleaned, recleaned, vin, validated, gm, gmPrev, pm,
                 pmPrev, risk, gmTable, rr, impact, helper>>

ImputeMissing_DropsUnfilled ==
  /\ pc = "employment"
  /\ pc' = "done"
  /\ df_clean' =
       [handle_missing_values(df_clean) EXCEPT
          !.rows = SelectSeq(@, LAMBDA r : ~IsNa(r["annual_inc"]))]
  /\ UNCHANGED <<raw, focus, cleaned, recleaned, vin, validated, gm, gmPrev, pm,
                 pmPrev, risk, gmTable, rr, impact, helper>>

(* Step 7: handle_missing_values *)
ImputeMissing ==
  /\ pc = "employment"
  /\ pc' = "done"
  /\ df_clean' = handle_missing_values(df_clean)
  /\ UNCHANGED <<raw, focus, cleaned, recleaned, vin, validated, gm, gmPrev, pm,
                 pmPrev, risk, gmTable, rr, impact, helper>>

(* The run step by step ends as the one call does: with the table that     *)
(* clean_lending_club_data(raw, focus) returns, or raising when it raises. *)
StepwiseAgrees ==
  /\ pc = "done" =>
       /\ clean_lending_club_data(raw, focus).status = "ok"
       /\ clean_lending_club_data(raw, focus).df = df_clean
  /\ pc = "raised" => clean_lending_club_data(raw, focus).status = "raised"

Next ==
  \/ \E focus_columns \in FocusLists : CleanData(focus_columns)
  \/ CleanAgain

NextValidate == ValidateData

NextAnalyzer ==
  \/ CleanData(ESSENTIAL_COLUMNS)
  \/ CalculateGradeMetrics
  \/ CalculatePortfolioMetrics
  \/ \E acceptable_default_rate \in Ceilings : IdentifyRiskThresholds(acceptable_default_rate)

NextRiskReturn ==
  \/ CleanData(ESSENTIAL_COLUMNS)
  \/ CalculateGradeMetrics
  \/ AnalyzeRiskReturn
  \/ CalculateBusinessImpact

NextHelpers ==
  \/ CallCleanInterestRate
  \/ CallAddDefaultIndicator
  \/ CallCleanEmploymentLength
  \/ CallHandleMissingValues

NextPipeline ==
  \/ \E focus_columns \in FocusLists : SelectColumns(focus_columns)
  \/ DropCritical
  \/ FilterStatus
  \/ NormalizeInterestRate
  \/ DeriveOutcome
  \/ NormalizeEmploymentLength
  \/ ImputeMissing

Spec == Init /\ [][Next]_vars

SpecValidate == InitValidate /\ [][NextValidate]_vars

SpecAnalyzer == InitAnalyzer /\ [][NextAnalyzer]_vars

SpecRiskReturn == InitRiskReturn /\ [][NextRiskReturn]_vars

SpecHelpers == InitHelpers /\ [][NextHelpers]_vars

SpecPipeline == InitPipeline /\ [][NextPipeline]_vars

----------------------------------------------------------------------------
(* The claims *)

(* The results of clean_lending_club_data that are tables. *)
CleanedTables ==
  (IF cleaned.status = "ok" THEN {cleaned.df} ELSE {})
  \cup (IF recleaned.status = "ok" THEN {recleaned.df} ELSE {})

(* C1: in every row of a table returned by clean_lending_club_data,        *)
(* is_default is 0 or 1, and it is 1 exactly when the row's loan_status is *)
(* 'Charged Off' or 'Default' (so 0 exactly for 'Fully Paid'); rows of the *)
(* same status carry the same flag whatever their other columns hold.      *)
C1_DefaultFlagFromStatus ==
  \A t \in CleanedTables :
    /\ "is_default" \in t.cols
    /\ \A i \in 1..Len(t.rows) :
         /\ t.rows[i]["is_default"] \in {Num(0), Num(1)}
         /\ t.rows[i]["is_default"] = Num(1)
              <=> t.rows[i]["loan_status"] \in {"Charged Off", "Default"}
         /\ t.rows[i]["is_default"] = Num(0) <=> t.rows[i]["loan_status"] = "Fully Paid"
         /\ \A j \in 1..Len(t.rows) :
              t.rows[i]["loan_status"] = t.rows[j]["loan_status"]
                => t.rows[i]["is_default"] = t.rows[j]["is_default"]

C1_Witness ==
  /\ cleaned.status = "ok"
  /\ \E i, j, k \in 1..Len(cleaned.df.rows) :
       /\ cleaned.df.rows[i]["loan_status"] = "Default"
       /\ cleaned.df.rows[i]["is_default"] = Num(1)
       /\ cleaned.df.rows[j]["loan_status"] = "Charged Off"
       /\ cleaned.df.rows[j]["is_default"] = Num(1)
       /\ cleaned.df.rows[k]["loan_status"] = "Fully Paid"
       /\ cleaned.df.rows[k]["is_default"] = Num(0)

(* The rows of the raw table that the claim C2 says are kept. *)
KeptRows ==
  SelectSeq(raw.rows,
            LAMBDA r : /\ r["grade"] # NULL
                       /\ r["loan_status"] # NULL
                       /\ r["loan_status"] \in {"Fully Paid", "Charged Off", "Default"})

(* The raw table of the three-row scenario. *)
ScenarioTable ==
  Table({"grade", "loan_status", "loan_amnt", "int_rate"},
        <<Row("A", "Fully Paid", Num(1000), Str(T_10pct), NaN, NaN),
          Row("A", "Charged Off", Num(2000), Str(T_12pct), NaN, NaN),
          Row("B", "Current", Num(500), Str(T_8pct), NaN, NaN)>>,
        "object")

(* C2: the rows of the table returned by clean_lending_club_data are       *)
(* exactly the input rows whose grade and loan_status are present and      *)
(* whose loan_status is 'Fully Paid', 'Charged Off' or 'Default', each     *)
(* once and in the input's order; the three-row scenario leaves two rows,  *)
(* both of grade A.                                                        *)
C2_RowsKept ==
  cleaned.status = "ok" =>
    /\ Len(cleaned.df.rows) = Len(KeptRows)
    /\ \A i \in 1..Len(KeptRows) :
         /\ cleaned.df.rows[i]["grade"] = KeptRows[i]["grade"]
         /\ cleaned.df.rows[i]["loan_status"] = KeptRows[i]["loan_status"]
         /\ "loan_amnt" \in cleaned.df.cols
              => cleaned.df.rows[i]["loan_amnt"] = KeptRows[i]["loan_amnt"]
    /\ raw = ScenarioTable =>
         /\ Len(cleaned.df.rows) = 2
         /\ \A i \in 1..2 : cleaned.df.rows[i]["grade"] = "A"

C2_Witness ==
  /\ raw = ScenarioTable
  /\ cleaned.status = "ok"
  /\ Len(cleaned.df.rows) = 2

(* C3: clean_lending_club_data never raises, whatever columns are absent   *)
(* and whatever text int_rate and emp_length hold.                         *)
C3_CleanNeverRaises == cleaned.status # "raised" /\ recleaned.status # "raised"

(* The checks of validate_cleaned_data that fail on vin, as the claim C4   *)
(* lists them.                                                             *)
FailedChecks ==
  (IF ~({"grade", "loan_status", "is_default"} \subseteq vin.cols)
     THEN {"Missing required columns"} ELSE {})
  \cup (IF \E i \in 1..Len(vin.rows) :
             \/ "grade" \in vin.cols /\ vin.rows[i]["grade"] = NULL
             \/ "loan_status" \in vin.cols /\ vin.rows[i]["loan_status"] = NULL
             \/ "is_default" \in vin.cols /\ IsNa(vin.rows[i]["is_default"])
          THEN {"Missing values in critical columns"} ELSE {})
  \cup (IF /\ "is_default" \in vin.cols
           /\ \E i \in 1..Len(vin.rows) : vin.rows[i]["is_default"] \notin {Num(0), Num(1)}
          THEN {"Default indicator not binary"} ELSE {})
  \cup (IF Len(vin.rows) * vin.copies < 1000 THEN {"Very few rows remaining"} ELSE {})

(* C4: validate_cleaned_data returns True when no check fails and          *)
(* otherwise raises one ValueError that lists every failed check, also     *)
(* when a required column is absent.                                       *)
C4_ValidateListsEveryFailure ==
  validated # NONE =>
    IF FailedChecks = {}
      THEN validated.status = "ok"
      ELSE /\ validated.status = "raised"
           /\ validated.exc = "ValueError"
           /\ validated.checks = FailedChecks

InSeq(x, q) == \E i \in 1..Len(q) : q[i] = x

NoDuplicates(q) == \A i, j \in 1..Len(q) : q[i] = q[j] => i = j

(* The rows of gm whose default_rate_pct is above the ceiling of risk. *)
AboveCeilingRows ==
  SelectSeq(gm.rows,
            LAMBDA r : r.default_rate_pct.k = "num"
                       /\ r.default_rate_pct.v > risk.acceptable_default_rate)

(* C5: identify_risk_thresholds partitions the grades of the Grade Metrics *)
(* table: every grade is in exactly one of high_risk_grades and            *)
(* acceptable_grades, it is in high_risk_grades exactly when its           *)
(* default_rate_pct is strictly above the ceiling (a grade at the ceiling  *)
(* is acceptable), and num_high_risk_grades is the size of                 *)
(* high_risk_grades.                                                       *)
C5_ThresholdPartition ==
  (risk.status = "ok" /\ gm.status = "ok") =>
    /\ \A i \in 1..Len(gm.rows) :
         LET r == gm.rows[i]
         IN  /\ InSeq(r.grade, risk.high_risk_grades) # InSeq(r.grade, risk.acceptable_grades)
             /\ InSeq(r.grade, risk.high_risk_grades)
                  <=> r.default_rate_pct.v > risk.acceptable_default_rate
             /\ r.default_rate_pct.v = risk.acceptable_default_rate
                  => InSeq(r.grade, risk.acceptable_grades)
    /\ \A g \in {"A", "B", "C", "D", "E", "F", "G"} :
         (InSeq(g, risk.high_risk_grades) \/ InSeq(g, risk.acceptable_grades))
           => \E i \in 1..Len(gm.rows) : gm.rows[i].grade = g
    /\ NoDuplicates(risk.high_risk_grades)
    /\ NoDuplicates(risk.acceptable_grades)
    /\ risk.num_high_risk_grades = Len(risk.high_risk_grades)

C5_Witness ==
  /\ risk.status = "ok"
  /\ gm.status = "ok"
  /\ risk.high_risk_grades # <<>>
  /\ \E i \in 1..Len(gm.rows) :
       /\ gm.rows[i].default_rate_pct = Num(risk.acceptable_default_rate)
       /\ InSeq(gm.rows[i].grade, risk.acceptable_grades)

(* C6 as claimed: high_risk_exposure_pct is the volume of the grades above *)
(* the ceiling over the volume of all grades, times 100; recommendation is *)
(* 'REVIEW_EXPOSURE' exactly when it is above 20; and with no grade above  *)
(* the ceiling the exposure is 0 and the recommendation 'ACCEPTABLE'.      *)
C6_ExposureAsClaimed ==
  (risk.status = "ok" /\ gm.status = "ok") =>
    LET high == SumSeq(Column(AboveCeilingRows, "total_volume"))
        all == SumSeq(Column(gm.rows, "total_volume"))
    IN  /\ risk.high_risk_exposure_pct = [n |-> high * 100, d |-> all]
        /\ risk.recommendation = "REVIEW_EXPOSURE" <=> high * 100 > 20 * all
        /\ risk.recommendation \in {"REVIEW_EXPOSURE", "ACCEPTABLE"}
        /\ AboveCeilingRows = <<>> =>
             /\ risk.high_risk_exposure_pct.n = 0
             /\ risk.high_risk_exposure_pct.d # 0
             /\ risk.recommendation = "ACCEPTABLE"

(* C6, amended: as claimed when the volume of all grades is positive; when *)
(* it is zero the exposure is the undefined 0 / 0 (NaN), not 0, and the    *)
(* recommendation is 'ACCEPTABLE'.                                         *)
C6_Exposure ==
  (risk.status = "ok" /\ gm.status = "ok") =>
    LET high == SumSeq(Column(AboveCeilingRows, "total_volume"))
        all == SumSeq(Column(gm.rows, "total_volume"))
    IN  /\ risk.high_risk_exposure_pct = [n |-> high * 100, d |-> all]
        /\ risk.recommendation \in {"REVIEW_EXPOSURE", "ACCEPTABLE"}
        /\ all > 0 =>
             /\ risk.recommendation = "REVIEW_EXPOSURE" <=> high * 100 > 20 * all
             /\ AboveCeilingRows = <<>> => risk.high_risk_exposure_pct.n = 0
        /\ AboveCeilingRows = <<>> => risk.recommendation = "ACCEPTABLE"
        /\ all = 0 =>
             /\ risk.high_risk_exposure_pct = [n |-> 0, d |-> 0]
             /\ risk.recommendation = "ACCEPTABLE"

C6_Witness ==
  /\ risk.status = "ok"
  /\ gm.status = "ok"
  /\ AboveCeilingRows # <<>>
  /\ risk.high_risk_exposure_pct.d > 0
  /\ risk.high_risk_exposure_pct.n = 20 * risk.high_risk_exposure_pct.d
  /\ risk.recommendation = "ACCEPTABLE"

Abs(x) == IF x < 0 THEN -x ELSE x

(* The sum of loan_amnt over the rows of the cleaned table. *)
CleanedVolume == SumSeq(Values(cleaned.df.rows, "loan_amnt"))

(* C7: for a cleaned table of positive total loan amount, every grade's    *)
(* volume_share_pct is its total_volume over the sum of total_volume of    *)
(* all grades, times 100, to within the 0.005 of rounding to 2 decimals,   *)
(* and the shares sum to 100 to within 0.005 per grade.  Shares count      *)
(* hundredths, so 100 is 10000 and 0.005 is half a unit.                   *)
C7_VolumeShares ==
  (gm.status = "ok" /\ CleanedVolume > 0) =>
    LET all == SumSeq(Column(gm.rows, "total_volume"))
        shares == [i \in 1..Len(gm.rows) |-> gm.rows[i].volume_share_pct.v]
    IN  /\ \A i \in 1..Len(gm.rows) :
             /\ gm.rows[i].volume_share_pct.k = "num"
             /\ 2 * Abs(shares[i] * all - gm.rows[i].total_volume * 100 * 100) <= all
        /\ 2 * Abs(SumSeq(shares) - 100 * 100) <= Len(gm.rows)

C7_Witness ==
  /\ gm.status = "ok"
  /\ CleanedVolume > 0
  /\ Len(gm.rows) = 3
  /\ SumSeq([i \in 1..Len(gm.rows) |-> gm.rows[i].volume_share_pct.v]) = 9999

(* C8: total_volume of calculate_portfolio_metrics is the sum of           *)
(* total_volume over the grades of calculate_grade_metrics on the same     *)
(* cleaned table: every row's amount is counted in exactly one grade.      *)
C8_VolumeConserved ==
  (gm.status = "ok" /\ pm.status = "ok") =>
    /\ pm.total_volume = SumSeq(Column(gm.rows, "total_volume"))
    /\ pm.total_volume = CleanedVolume

C8_Witness ==
  /\ gm.status = "ok"
  /\ pm.status = "ok"
  /\ Len(gm.rows) >= 2
  /\ pm.total_volume > 0
  /\ Len(raw.rows) > Len(cleaned.df.rows)

(* C9: cleaning a cleaned table again with the same focus columns returns  *)
(* a table of as many rows, with the same is_default, int_rate and grade   *)
(* in every row.                                                           *)
C9_CleanIdempotent ==
  recleaned # NONE =>
    /\ recleaned.status = "ok"
    /\ Len(recleaned.df.rows) = Len(cleaned.df.rows)
    /\ \A i \in 1..Len(cleaned.df.rows) :
         /\ recleaned.df.rows[i]["is_default"] = cleaned.df.rows[i]["is_default"]
         /\ recleaned.df.rows[i]["int_rate"] = cleaned.df.rows[i]["int_rate"]
         /\ recleaned.df.rows[i]["grade"] = cleaned.df.rows[i]["grade"]

C9_Witness ==
  /\ recleaned.status = "ok"
  /\ raw.int_rate_dtype = "object"
  /\ Len(raw.rows) > Len(cleaned.df.rows)
  /\ \E i \in 1..Len(recleaned.df.rows) :
       /\ recleaned.df.rows[i]["int_rate"].k = "num"
       /\ recleaned.df.rows[i]["is_default"] = Num(1)

C11_InputsUnchanged ==
  [][/\ raw' = raw
     /\ cleaned.status = "ok" => cleaned' = cleaned
     /\ (rr' # rr \/ risk' # risk \/ impact' # impact) => gmTable' = gmTable]_vars

(* The years the claim C12 gives for the employment-length texts of the    *)
(* inputs, counting 1/Scale: the missing marker for every text that is not *)
(* '< 1 year', '10+ years' or a number followed by 'year' or 'years'.      *)
LookupYears(emp_length) ==
  IF emp_length = Str(<<"<", " ", "1", " ", "y", "e", "a", "r">>) THEN Num(5000)
  ELSE IF emp_length = Str(<<"1", "0", "+", " ", "y", "e", "a", "r", "s">>) THEN Num(100000)
  ELSE IF emp_length = Str(<<"3", " ", "y", "e", "a", "r", "s">>) THEN Num(30000)
  ELSE IF emp_length = Str(<<"1", " ", "y", "e", "a", "r">>) THEN Num(10000)
  ELSE NaN

(* C12: clean_employment_length never raises on a table that has an        *)
(* emp_length column, and sets emp_length_years of every row by the fixed  *)
(* lookup: 0.5 for '< 1 year', 10 for '10+ years', N for 'N year(s)' and   *)
(* the missing marker for everything else, text that holds 'year' without  *)
(* a leading number included.                                              *)
C12_EmploymentLookup ==
  (helper.fn = "clean_employment_length" /\ "emp_length" \in raw.cols) =>
    /\ helper.out.status = "ok"
    /\ Len(helper.out.df.rows) = Len(raw.rows)
    /\ \A i \in 1..Len(raw.rows) :
         helper.out.df.rows[i]["emp_length_years"] = LookupYears(raw.rows[i]["emp_length"])

(* The k-th least of the numbers xs, by counting: the value that fewer     *)
(* than k of them are below and at least k of them are at most.            *)
OrderStatistic(xs, k) ==
  CHOOSE x \in {xs[i] : i \in 1..Len(xs)} :
    /\ Cardinality({i \in 1..Len(xs) : xs[i] < x}) < k
    /\ Cardinality({i \in 1..Len(xs) : xs[i] <= x}) >= k

(* v is the median of the numbers xs: the middle one, or the mean of the   *)
(* two middle ones.                                                        *)
IsMedian(v, xs) ==
  /\ xs # <<>>
  /\ v.k = "num"
  /\ 2 * v.v = OrderStatistic(xs, (Len(xs) + 1) \div 2)
                 + OrderStatistic(xs, Len(xs) \div 2 + 1)

(* The non-missing annual_inc of the rows of the raw table of grade g. *)
GradeIncomes(g) ==
  Values(SelectSeq(raw.rows, LAMBDA r : r["grade"] = g), "annual_inc")

(* What handle_missing_values(raw) returned leaves the columns, the row    *)
(* count and every column but annual_inc and emp_length_years as in raw.   *)
OtherColumnsUntouched ==
  /\ helper.out.df.cols = raw.cols
  /\ Len(helper.out.df.rows) = Len(raw.rows)
  /\ \A i \in 1..Len(raw.rows) :
       \A c \in RowCols \ {"annual_inc", "emp_length_years"} :
         helper.out.df.rows[i][c] = raw.rows[i][c]

(* Row i of what handle_missing_values(raw) returned holds the income the  *)
(* claim C13 gives it: its own when it has one, else the median of the     *)
(* incomes of its grade, else none.                                        *)
IncomeImputed(i) ==
  LET before == raw.rows[i]["annual_inc"]
      after == helper.out.df.rows[i]["annual_inc"]
      xs == GradeIncomes(raw.rows[i]["grade"])
  IN  IF before.k = "num" THEN after = before
      ELSE IF xs = <<>> THEN IsNa(after)
      ELSE IsMedian(after, xs)

ParsedYears ==
  LET parsed == SelectSeq(KeptRows, LAMBDA r : LookupYears(r["emp_length"]).k = "num")
  IN  [i \in 1..Len(parsed) |-> LookupYears(parsed[i]["emp_length"]).v]

(* C14: after clean_lending_club_data on a table with an emp_length column *)
(* of which a retained row parses to a number, no emp_length_years is      *)
(* missing: a row whose emp_length parses holds the parsed value, and      *)
(* every other row holds the one median of the parsed values of the        *)
(* retained rows of all grades.                                            *)
C14_EmploymentYearsFilled ==
  (/\ cleaned.status = "ok"
   /\ "emp_length" \in raw.cols \cap focus
   /\ ParsedYears # <<>>) =>
    /\ Len(cleaned.df.rows) = Len(KeptRows)
    /\ \A i \in 1..Len(KeptRows) :
         LET years == LookupYears(KeptRows[i]["emp_length"])
             after == cleaned.df.rows[i]["emp_length_years"]
         IN  /\ after.k = "num"
             /\ IF years.k = "num" THEN after = years ELSE IsMedian(after, ParsedYears)

C14_Witness ==
  /\ cleaned.status = "ok"
  /\ "emp_length" \in raw.cols \cap focus
  /\ ParsedYears # <<>>
  /\ \E k \in 1..Len(raw.rows) :
       /\ raw.rows[k]["loan_status"] = "Current"
       /\ LookupYears(raw.rows[k]["emp_length"]).k = "num"
       /\ LookupYears(raw.rows[k]["emp_length"]).v # ParsedYears[1]
  /\ \E i \in 1..Len(KeptRows) :
       /\ IsNa(KeptRows[i]["emp_length"])
       /\ KeptRows[i]["grade"] = "B"
       /\ cleaned.df.rows[i]["emp_length_years"].k = "num"
       /\ \A j \in 1..Len(KeptRows) : j # i => KeptRows[j]["grade"] = "A"

(* The number written before the percent symbol in the int_rate texts of   *)
(* the inputs, counting 1/Scale; NaN for a text that holds no number.      *)
PercentValue(int_rate) ==
  IF int_rate = Str(<<"1", "0", "%">>) THEN Num(100000)
  ELSE IF int_rate = Str(<<"1", "2", "%">>) THEN Num(120000)
  ELSE IF int_rate = Str(<<"8", "%">>) THEN Num(80000)
  ELSE IF int_rate = Str(<<"1", "0", ".", "5", "%", "%">>) THEN Num(105000)
  ELSE NaN

(* Every text of the int_rate column of raw is a number and a percent      *)
(* symbol.                                                                 *)
RatesArePercentTexts ==
  \A i \in 1..Len(raw.rows) :
    raw.rows[i]["int_rate"].k = "str" => PercentValue(raw.rows[i]["int_rate"]).k = "num"

(* C15: clean_interest_rate on a column of percent texts returns every     *)
(* text as the number before the symbol ('10%' as 10.0); on a numeric      *)
(* column it returns every value as it was; both ways the row count and    *)
(* the other columns are as before and the column is numeric, no text left *)
(* in any row.                                                             *)
C15_InterestRateNormalized ==
  (/\ helper.fn = "clean_interest_rate"
   /\ "int_rate" \in raw.cols
   /\ RatesArePercentTexts) =>
    /\ helper.out.status = "ok"
    /\ helper.out.df.cols = raw.cols
    /\ helper.out.df.int_rate_dtype = "float64"
    /\ Len(helper.out.df.rows) = Len(raw.rows)
    /\ \A i \in 1..Len(raw.rows) :
         LET before == raw.rows[i]["int_rate"]
             after == helper.out.df.rows[i]["int_rate"]
         IN  /\ after.k # "str"
             /\ (raw.int_rate_dtype = "object" /\ before.k = "str")
                  => after = PercentValue(before)
             /\ raw.int_rate_dtype # "object" => after = before
             /\ IsNa(before) => IsNa(after)
             /\ \A c \in RowCols \ {"int_rate"} :
                  helper.out.df.rows[i][c] = raw.rows[i][c]

C15_Witness ==
  /\ helper.fn = "clean_interest_rate"
  /\ helper.out.status = "ok"
  /\ raw.int_rate_dtype = "object"
  /\ \E i, j \in 1..Len(raw.rows) :
       /\ raw.rows[i]["int_rate"] = Str(<<"1", "0", "%">>)
       /\ helper.out.df.rows[i]["int_rate"] = Num(10 * Scale)
       /\ raw.rows[j]["int_rate"] = Str(<<"1", "2", "%">>)
       /\ helper.out.df.rows[j]["int_rate"] = Num(12 * Scale)

(* avg_interest_rate - default_rate_pct of row i of the table that         *)
(* calculate_grade_metrics returned, counting 1/Scale.                     *)
PremiumOf(i) == gm.rows[i].avg_interest_rate.v - gm.rows[i].default_rate_pct.v * 100

(* The rows of gm in which both terms of the risk premium are numbers. *)
Comparable ==
  {i \in 1..Len(gm.rows) :
     gm.rows[i].avg_interest_rate.k = "num" /\ gm.rows[i].default_rate_pct.k = "num"}

(* C16: analyze_risk_return_relationship sets risk_premium of every grade  *)
(* to avg_interest_rate - default_rate_pct; worst_risk_return_grade is the *)
(* first grade in table order whose risk_premium is the least and          *)
(* best_risk_return_grade the first whose risk_premium is the greatest     *)
(* (a missing premium is skipped); with one grade the two are the same.    *)
C16_RiskPremiumExtremes ==
  rr.status = "ok" =>
    /\ \A i \in 1..Len(gmTable.rows) :
         "risk_premium" \in DOMAIN gmTable.rows[i] =>
           gmTable.rows[i]["risk_premium"]
             = IF i \in Comparable THEN Num(PremiumOf(i)) ELSE NaN
    /\ \E w \in Comparable :
         /\ rr.worst_risk_return_grade = gm.rows[w].grade
         /\ \A j \in Comparable : PremiumOf(w) <= PremiumOf(j)
         /\ \A j \in Comparable : j < w => PremiumOf(w) < PremiumOf(j)
    /\ \E b \in Comparable :
         /\ rr.best_risk_return_grade = gm.rows[b].grade
         /\ \A j \in Comparable : PremiumOf(b) >= PremiumOf(j)
         /\ \A j \in Comparable : j < b => PremiumOf(b) > PremiumOf(j)
    /\ Len(gm.rows) = 1 => rr.worst_risk_return_grade = rr.best_risk_return_grade

C16_Witness ==
  /\ rr.status = "ok"
  /\ Len(gm.rows) = 3
  /\ Comparable = {1, 2, 3}
  /\ PremiumOf(1) = PremiumOf(2)
  /\ PremiumOf(3) < PremiumOf(1)
  /\ rr.best_risk_return_grade = gm.rows[1].grade
  /\ rr.worst_risk_return_grade = gm.rows[3].grade

(* C17: calculate_grade_metrics on a cleaned table returns one row for     *)
(* every grade of the table and no other, each with total_loans >= 1 and   *)
(* 0 <= num_defaults <= total_loans; over the grades total_loans sums to   *)
(* total_loans of calculate_portfolio_metrics, the row count of the table, *)
(* and num_defaults sums to its total_defaults.                            *)
C17_GradeCounts ==
  /\ gm.status = "ok" =>
       /\ {gm.rows[i].grade : i \in 1..Len(gm.rows)}
            = {cleaned.df.rows[i]["grade"] : i \in 1..Len(cleaned.df.rows)}
       /\ \A i, j \in 1..Len(gm.rows) : gm.rows[i].grade = gm.rows[j].grade => i = j
       /\ \A i \in 1..Len(gm.rows) :
            /\ gm.rows[i].total_loans >= 1
            /\ gm.rows[i].num_defaults >= 0
            /\ gm.rows[i].num_defaults <= gm.rows[i].total_loans
  /\ (gm.status = "ok" /\ pm.status = "ok") =>
       /\ SumSeq(Column(gm.rows, "total_loans")) = pm.total_loans
       /\ pm.total_loans = Len(cleaned.df.rows)
       /\ SumSeq(Column(gm.rows, "num_defaults")) = pm.total_defaults

C17_Witness ==
  /\ gm.status = "ok"
  /\ pm.status = "ok"
  /\ Len(gm.rows) = 2
  /\ pm.total_loans = 3
  /\ pm.total_defaults = 2
  /\ \E i \in 1..Len(gm.rows) : gm.rows[i].total_loans = 2 /\ gm.rows[i].num_defaults = 1

(* The steps of clean_lending_club_data in the order of the claim C18. *)
StepOrder ==
  <<"idle", "projected", "dropped", "filtered", "rate", "outcome", "employment", "done">>

(* The rows of the raw table that hold no grade or no status, and those    *)
(* that hold both and a status that is not completed, by their positions.  *)
CriticalMissing ==
  {i \in 1..Len(raw.rows) :
     raw.rows[i]["grade"] = NULL \/ raw.rows[i]["loan_status"] = NULL}

NotCompleted ==
  {i \in 1..Len(raw.rows) :
     /\ i \notin CriticalMissing
     /\ raw.rows[i]["loan_status"] \notin {"Fully Paid", "Charged Off", "Default"}}

(* The non-missing annual_inc of the retained rows of grade g. *)
RetainedIncomes(g) ==
  Values(SelectSeq(KeptRows, LAMBDA r : r["grade"] = g), "annual_inc")

(* At the end of the run the table holds the retained rows and the values  *)
(* imputed are medians over the retained rows.                             *)
FinalTable ==
  /\ Len(df_clean.rows)
       = Len(raw.rows) - Cardinality(CriticalMissing) - Cardinality(NotCompleted)
  /\ "annual_inc" \in df_clean.cols =>
       \A i \in 1..Len(df_clean.rows) :
         LET before == KeptRows[i]["annual_inc"]
             after == df_clean.rows[i]["annual_inc"]
             xs == RetainedIncomes(KeptRows[i]["grade"])
         IN  IF before.k = "num" THEN after = before
             ELSE IF xs = <<>> THEN IsNa(after)
             ELSE IsMedian(after, xs)
  /\ "emp_length_years" \in df_clean.cols =>
       \A i \in 1..Len(df_clean.rows) :
         LET years == LookupYears(KeptRows[i]["emp_length"])
             after == df_clean.rows[i]["emp_length_years"]
         IN  IF years.k = "num" THEN after = years
             ELSE IF ParsedYears = <<>> THEN IsNa(after)
             ELSE IsMedian(after, ParsedYears)

(* C18: the steps of the cleaning run in the order projection, critical-   *)
(* field drop, status filter, interest-rate normalization, outcome         *)
(* derivation, employment-length normalization, imputation; no step adds a *)
(* row and only the critical-field drop and the status filter remove rows; *)
(* the steps after the status filter keep the rows, each in its place; so  *)
(* the final row count is the input's less the rows those two steps        *)
(* removed, and the medians of the imputation are over the retained rows.  *)
C18_StepOrder ==
  [][/\ pc' # pc =>
          \/ pc' = "raised"
          \/ \E k \in 1..(Len(StepOrder) - 1) : pc = StepOrder[k] /\ pc' = StepOrder[k + 1]
     /\ (pc \notin {"idle", "raised"} /\ pc' # "raised") =>
          /\ Len(df_clean'.rows) <= Len(df_clean.rows)
          /\ Len(df_clean'.rows) < Len(df_clean.rows) => pc' \in {"dropped", "filtered"}
     /\ pc' = "projected" => Len(df_clean'.rows) = Len(raw.rows)
     /\ pc' \in {"rate", "outcome", "employment", "done"} =>
          /\ Len(df_clean'.rows) = Len(df_clean.rows)
          /\ \A i \in 1..Len(df_clean.rows) :
               \A c \in {"grade", "loan_status", "loan_amnt", "emp_length"} :
                 df_clean'.rows[i][c] = df_clean.rows[i][c]
     /\ pc' = "done" => FinalTable']_vars

C18_Witness ==
  /\ pc = "done"
  /\ Cardinality(CriticalMissing) = 0
  /\ Cardinality(NotCompleted) = 1
  /\ Len(df_clean.rows) = 2
  /\ \E i \in 1..Len(raw.rows) :
       /\ i \in NotCompleted
       /\ raw.rows[i]["annual_inc"].k = "num"
       /\ raw.rows[i]["grade"] = "C"
  /\ \E i \in 1..Len(df_clean.rows) :
       /\ IsNa(KeptRows[i]["annual_inc"])
       /\ df_clean.rows[i]["grade"] = "C"
       /\ df_clean.rows[i]["annual_inc"].k = "num"

====
